---- MODULE Spec2Model ----
(***************************************************************************)
(* Multi-brand theme switcher (theme-toggle.js).                           *)
(*                                                                         *)
(* The page is a state machine: the root element's class attribute, the    *)
(* text of the diagnostic elements, the two select controls and the two    *)
(* localStorage keys.  Its steps are the handlers the script registers:    *)
(* init (once per page load), the two change handlers, and a page reload.  *)
(* A string is a sequence of atoms (chunks of characters); the atoms " "   *)
(* and "\t" are the white space characters.  Str gives the string itself.  *)
(***************************************************************************)
EXTENDS Integers, Sequences, FiniteSets, TLC

VARIABLES
  className,     \* document.documentElement.className, a sequence of atoms
  textContent,   \* textContent of every optional display element present
  brandSelect,   \* brandSelect.value
  modeSelect,    \* modeSelect.value
  localStorage,  \* the two keys of the origin's store
  lastEvent,     \* "load" (markup parsed, init not yet run), "init", "change"
  fault,         \* which storage access threw during the last event
  log,           \* the steps of the last event, in the order they ran
  raised,        \* an exception left the last handler
  listening,     \* the two change listeners are attached
  htmlClass,     \* the class attribute the markup gives the root element
  beforeReload   \* the class set of the page this load replaced, when the last
                 \* event of that page was a change whose save went through

vars == <<className, textContent, brandSelect, modeSelect, localStorage,
          lastEvent, fault, log, raised, listening, htmlClass, beforeReload>>

(***************************************************************************)
(* Bounds and configuration                                                *)
(***************************************************************************)
\* Most pieces, cut at white space, the markup's class attribute may carry.
MaxTokens == 2

STORAGE_KEY_BRAND == "ds-theme-brand"
STORAGE_KEY_MODE == "ds-theme-mode"
BaseClass == "Headless-base"
DefaultBrand == "Brand-A"
DefaultMode == "Lightmode"
ClassesDisplayId == "current-classes-display"

\* The options of the two select controls.
Brands == {"Brand-A", "Brand-B"}
Modes == {"Lightmode", "Darkmode"}

\* getItem's answer for a key that is not in the store.
NULL == "<null>"

Space == " "
Tab == "\t"
WhiteSpace == {Space, Tab}

\* The pieces the markup's class attribute is made of: the base class, a
\* brand-mode class, a class of other code, and the empty piece (leading,
\* trailing or doubled white space).
MarkupTokens == {BaseClass, "Brand-B-Darkmode", "no-js", ""}

\* The attribute made of the pieces ts, with the white space ss between them.
RECURSIVE Attribute(_, _)
Attribute(ts, ss) ==
  IF Len(ts) = 0 THEN <<>>
  ELSE LET first == IF Head(ts) = "" THEN <<>> ELSE <<Head(ts)>>
       IN IF Len(ts) = 1 THEN first
          ELSE first \o <<Head(ss)>> \o Attribute(Tail(ts), Tail(ss))

MarkupClassNames ==
  UNION {{Attribute(ts, ss) : ts \in [1..n -> MarkupTokens],
                              ss \in [1..(n - 1) -> WhiteSpace]} : n \in 0..MaxTokens}

\* Which storage access throws: none, the one on the brand key, the one on
\* the mode key.
Faults == {"none", "brand", "mode"}

(***************************************************************************)
(* Strings                                                                 *)
(***************************************************************************)
RECURSIVE Str(_)
Str(s) == IF s = <<>> THEN "" ELSE Head(s) \o Str(Tail(s))

\* String.prototype.split with a one-character separator (seps = {" "}); with
\* seps = WhiteSpace, the cut the DOM makes for a class attribute.  `done` are
\* the pieces cut so far and `cur` is the piece being read.
RECURSIVE SplitFrom(_, _, _, _)
SplitFrom(s, seps, done, cur) ==
  IF s = <<>> THEN Append(done, cur)
  ELSE IF Head(s) \in seps THEN SplitFrom(Tail(s), seps, Append(done, cur), <<>>)
  ELSE SplitFrom(Tail(s), seps, done, Append(cur, Head(s)))

Split(s, seps) == SplitFrom(s, seps, <<>>, <<>>)

\* Array.prototype.join(' ') of an array of strings, as a sequence of atoms.
RECURSIVE Join(_)
Join(list) ==
  IF list = <<>> THEN <<>>
  ELSE IF Len(list) = 1 THEN <<list[1]>>
  ELSE <<list[1], Space>> \o Join(Tail(list))

\* Array.prototype.includes
Includes(list, x) == \E i \in 1..Len(list) : list[i] = x

\* String.prototype.trim
RECURSIVE Trim(_)
Trim(s) ==
  IF s = <<>> THEN s
  ELSE IF Head(s) \in WhiteSpace THEN Trim(Tail(s))
  ELSE IF s[Len(s)] \in WhiteSpace THEN Trim(SubSeq(s, 1, Len(s) - 1))
  ELSE s

\* The strings of the non-empty pieces.
TokenSet(pieces) == {Str(pieces[i]) : i \in {j \in 1..Len(pieces) : pieces[j] # <<>>}}

\* The class tokens of an element: the attribute cut at white space, empty
\* pieces dropped.
ClassSet(cn) == TokenSet(Split(cn, WhiteSpace))

(***************************************************************************)
(* The style sheets (external): every sheet scopes its custom properties   *)
(* under one class; a later sheet wins over an earlier one.                *)
(***************************************************************************)
SheetOrder ==
  <<"Headless-base", "Brand-A-Lightmode", "Brand-A-Darkmode",
    "Brand-B-Lightmode", "Brand-B-Darkmode">>

\* Map of element IDs to their CSS variable names.
tokenMap ==
  [id \in {"btn-radius-value", "btn-font-value", "btn-border-width-value",
           "heading-font-value", "body-font-value", "heading-size-value",
           "tag-radius-value", "tag-font-value", "tag-weight-value"} |->
     CASE id = "btn-radius-value" -> "--button-border-radius"
       [] id = "btn-font-value" -> "--button-font-family"
       [] id = "btn-border-width-value" -> "--button-border-width"
       [] id = "heading-font-value" -> "--heading-sans-serif-font-family"
       [] id = "body-font-value" -> "--body-sans"
       [] id = "heading-size-value" -> "--heading-m-font-size"
       [] id = "tag-radius-value" -> "--tag-border-radius"
       [] id = "tag-font-value" -> "--tag-font-family"
       [] id = "tag-weight-value" -> "--tag-font-weight"]

TokenIds == DOMAIN tokenMap

\* The .swatch-value elements, each named by its data-var attribute.
SwatchVars == {"--semantic-fg-default", "--semantic-bg-surface"}

\* The declared value of a custom property as the style engine hands it out:
\* the text after the colon, leading white space kept.
Declared(cls, var) == <<Space, cls, "/", var>>

\* The sheets (by position) whose class is among the tokens.
SheetsOf(set) == {i \in 1..Len(SheetOrder) : SheetOrder[i] \in set}

LastSheet(hits) ==
  IF hits = {} THEN "" ELSE SheetOrder[CHOOSE i \in hits : \A j \in hits : j <= i]

\* getComputedStyle(htmlElement) for a root element whose class attribute is
\* cn: the class of the last sheet that applies ("" when none does).
getComputedStyle(cn) == LastSheet(SheetsOf(ClassSet(cn)))

getPropertyValue(computedStyle, var) ==
  IF computedStyle = "" THEN <<>> ELSE Declared(computedStyle, var)

(***************************************************************************)
(* theme-toggle.js.  Every function maps the page it runs on to the page   *)
(* it leaves: a record of the root class attribute, the texts of the       *)
(* display elements present, the values of the two selects, the store, the *)
(* steps run so far, whether an exception is in flight, and whether the    *)
(* change listeners are attached.  A function called while an exception is *)
(* in flight does not run: it leaves the page as it is.                    *)
(***************************************************************************)
Step(name, arg) == [step |-> name, arg |-> arg]

getThemeClass(brand, mode) == brand \o "-" \o mode

\* Line 50: className.split(' ') as an array of strings.
Tokens(pieces) == [i \in 1..Len(pieces) |-> Str(pieces[i])]

\* Faulty variant: nothing is filtered out (the new class is only added).
Kept_KeepAll(tokens, themeClass) == tokens

\* Lines 50-52: the filter.
Kept(tokens, themeClass) ==
  SelectSeq(tokens, LAMBDA cls : cls = BaseClass \/ cls = themeClass)

\* Faulty variant: push in place of unshift.
EnsureBase_Push(classList) ==
  IF ~Includes(classList, BaseClass) THEN Append(classList, BaseClass) ELSE classList

\* Lines 55-57.
EnsureBase(classList) ==
  IF ~Includes(classList, BaseClass) THEN <<BaseClass>> \o classList ELSE classList

\* Lines 58-60.
EnsureTheme(classList, themeClass) ==
  IF ~Includes(classList, themeClass) THEN Append(classList, themeClass) ELSE classList

\* Lines 50-60: the class list applyTheme builds from the old attribute.
ThemeClassList(cn, themeClass) ==
  EnsureTheme(EnsureBase(Kept(Tokens(Split(cn, {Space})), themeClass)), themeClass)

\* Line 63.
WriteClassName(p, classList) ==
  [p EXCEPT !.className = Join(classList),
            !.log = Append(@, Step("className=", Str(Join(classList))))]

updateClassDisplay(p) ==
  IF p.raised THEN p
  ELSE IF ClassesDisplayId \in DOMAIN p.text
  THEN [p EXCEPT !.text[ClassesDisplayId] = Str(p.className),
                 !.log = Append(@, Step("updateClassDisplay", Str(p.className)))]
  ELSE [p EXCEPT !.log = Append(@, Step("updateClassDisplay", Str(p.className)))]

\* Lines 92-96 under the computed style of line 90.
SwatchTexts(text, computedStyle) ==
  [id \in DOMAIN text |->
     IF id \in SwatchVars THEN Str(Trim(getPropertyValue(computedStyle, id)))
     ELSE text[id]]

updateSwatchValues(p) ==
  IF p.raised THEN p
  ELSE
  [p EXCEPT !.text = SwatchTexts(@, getComputedStyle(p.className)),
            !.log = Append(@, Step("updateSwatchValues", Str(p.className)))]

\* Lines 119-125 under the computed style of line 104.
ComponentTexts(text, computedStyle) ==
  [id \in DOMAIN text |->
     IF id \in TokenIds THEN Str(Trim(getPropertyValue(computedStyle, tokenMap[id])))
     ELSE text[id]]

\* Faulty variant: no `if (element)`: the text of an absent element is written.
updateComponentTokenValues_NoGuard(p) ==
  IF p.raised THEN p
  ELSE IF TokenIds \subseteq DOMAIN p.text
  THEN [p EXCEPT !.text = ComponentTexts(@, getComputedStyle(p.className)),
                 !.log = Append(@, Step("updateComponentTokenValues", Str(p.className)))]
  ELSE [p EXCEPT !.raised = TRUE,
                 !.log = Append(@, Step("updateComponentTokenValues", Str(p.className)))]

updateComponentTokenValues(p) ==
  IF p.raised THEN p
  ELSE
  [p EXCEPT !.text = ComponentTexts(@, getComputedStyle(p.className)),
            !.log = Append(@, Step("updateComponentTokenValues", Str(p.className)))]

\* Faulty variant: the class label is refreshed before the attribute is written.
applyTheme_DisplayFirst(p, brand, mode) ==
  updateComponentTokenValues(
    updateSwatchValues(
      WriteClassName(updateClassDisplay(p),
                     ThemeClassList(p.className, getThemeClass(brand, mode)))))

applyTheme(p, brand, mode) ==
  updateComponentTokenValues(
    updateSwatchValues(
      updateClassDisplay(
        WriteClassName(p, ThemeClassList(p.className, getThemeClass(brand, mode))))))

\* Faulty variant: no try/catch around the two writes.
saveToStorage_NoCatch(p, brand, mode, f) ==
  IF p.raised THEN p
  ELSE IF f = "brand"
  THEN [p EXCEPT !.raised = TRUE, !.log = Append(@, Step("setItem", STORAGE_KEY_BRAND))]
  ELSE IF f = "mode"
  THEN [p EXCEPT !.store[STORAGE_KEY_BRAND] = brand, !.raised = TRUE,
                 !.log = @ \o <<Step("setItem", STORAGE_KEY_BRAND),
                                Step("setItem", STORAGE_KEY_MODE)>>]
  ELSE [p EXCEPT !.store[STORAGE_KEY_BRAND] = brand,
                 !.store[STORAGE_KEY_MODE] = mode,
                 !.log = @ \o <<Step("setItem", STORAGE_KEY_BRAND),
                                Step("setItem", STORAGE_KEY_MODE)>>]

\* Faulty variant: the two values are written under each other's key.
saveToStorage_SwappedKeys(p, brand, mode, f) ==
  IF p.raised THEN p
  ELSE IF f = "brand"
  THEN [p EXCEPT !.log = @ \o <<Step("setItem", STORAGE_KEY_BRAND), Step("warn", "save")>>]
  ELSE IF f = "mode"
  THEN [p EXCEPT !.store[STORAGE_KEY_BRAND] = mode,
                 !.log = @ \o <<Step("setItem", STORAGE_KEY_BRAND),
                                Step("setItem", STORAGE_KEY_MODE), Step("warn", "save")>>]
  ELSE [p EXCEPT !.store[STORAGE_KEY_BRAND] = mode,
                 !.store[STORAGE_KEY_MODE] = brand,
                 !.log = @ \o <<Step("setItem", STORAGE_KEY_BRAND),
                                Step("setItem", STORAGE_KEY_MODE)>>]

\* setItem on the key `f` throws; the catch logs a warning.
saveToStorage(p, brand, mode, f) ==
  IF p.raised THEN p
  ELSE IF f = "brand"
  THEN [p EXCEPT !.log = @ \o <<Step("setItem", STORAGE_KEY_BRAND), Step("warn", "save")>>]
  ELSE IF f = "mode"
  THEN [p EXCEPT !.store[STORAGE_KEY_BRAND] = brand,
                 !.log = @ \o <<Step("setItem", STORAGE_KEY_BRAND),
                                Step("setItem", STORAGE_KEY_MODE), Step("warn", "save")>>]
  ELSE [p EXCEPT !.store[STORAGE_KEY_BRAND] = brand,
                 !.store[STORAGE_KEY_MODE] = mode,
                 !.log = @ \o <<Step("setItem", STORAGE_KEY_BRAND),
                                Step("setItem", STORAGE_KEY_MODE)>>]

\* Faulty variant: one try/catch per key, so the key that can be read is kept.
loadFromStorage_PerKey(store, f) ==
  [brand |-> IF f = "brand" THEN NULL ELSE store[STORAGE_KEY_BRAND],
   mode |-> IF f = "mode" THEN NULL ELSE store[STORAGE_KEY_MODE],
   raised |-> FALSE]

\* getItem on the key `f` throws; the catch answers with both fields null.
loadFromStorage(store, f) ==
  IF f = "none"
  THEN [brand |-> store[STORAGE_KEY_BRAND], mode |-> store[STORAGE_KEY_MODE],
        raised |-> FALSE]
  ELSE [brand |-> NULL, mode |-> NULL, raised |-> FALSE]

\* Faulty variant: the selection is saved before it is applied.
handleBrandChange_SaveFirst(p, f) ==
  applyTheme(saveToStorage(p, p.brand, p.mode, f), p.brand, p.mode)

handleBrandChange(p, f) ==
  saveToStorage(applyTheme(p, p.brand, p.mode), p.brand, p.mode, f)

handleModeChange(p, f) ==
  saveToStorage(applyTheme(p, p.brand, p.mode), p.brand, p.mode, f)

\* Faulty variant: && in place of ||.
OrElse_And(v, default) == IF v = NULL \/ v = "" THEN v ELSE default

\* a || b
OrElse(v, default) == IF v = NULL \/ v = "" THEN default ELSE v

\* Lines 197-198.
AddListeners(p) == IF p.raised THEN p ELSE [p EXCEPT !.listening = TRUE]

\* Lines 190-198, for the brand and mode of lines 186-187.
InitTheme(p, brand, mode) ==
  AddListeners(applyTheme([p EXCEPT !.brand = brand, !.mode = mode], brand, mode))

\* Lines 186-198, for the answer of loadFromStorage.
InitSaved(p, saved) ==
  IF saved.raised THEN [p EXCEPT !.raised = TRUE]
  ELSE InitTheme(p, OrElse(saved.brand, DefaultBrand), OrElse(saved.mode, DefaultMode))

init(p, f) == InitSaved(p, loadFromStorage(p.store, f))

(***************************************************************************)
(* The page                                                                *)
(***************************************************************************)
AllElementIds == {ClassesDisplayId} \cup TokenIds \cup SwatchVars

\* The optional display elements a page may carry.
Documents ==
  { {}, AllElementIds,
    AllElementIds \ {ClassesDisplayId, "tag-font-value", "--semantic-bg-surface"} }

\* The stores saveToStorage can leave behind: nothing, a brand alone (the
\* write of the mode threw), a brand and a mode.
StoreStates ==
  {st \in [{STORAGE_KEY_BRAND, STORAGE_KEY_MODE} -> Brands \cup Modes \cup {NULL}] :
     /\ st[STORAGE_KEY_BRAND] \in Brands \cup {NULL}
     /\ st[STORAGE_KEY_MODE] \in Modes \cup {NULL}
     /\ st[STORAGE_KEY_BRAND] = NULL => st[STORAGE_KEY_MODE] = NULL}

NoPage == [classes |-> {}, saved |-> FALSE]

\* The page a handler starts on: no step run yet, no exception in flight.
Page ==
  [className |-> className, text |-> textContent, brand |-> brandSelect,
   mode |-> modeSelect, store |-> localStorage, log |-> <<>>, raised |-> FALSE,
   listening |-> listening]

\* The page a handler leaves.
Leaves(p) ==
  /\ className' = p.className
  /\ textContent' = p.text
  /\ brandSelect' = p.brand
  /\ modeSelect' = p.mode
  /\ localStorage' = p.store
  /\ log' = p.log
  /\ raised' = p.raised
  /\ listening' = p.listening

\* The markup as parsed, before the script runs.
Markup(cn, doc) ==
  /\ className = cn
  /\ htmlClass = cn
  /\ textContent = [id \in doc |-> ""]
  /\ brandSelect = "Brand-A"
  /\ modeSelect = "Lightmode"
  /\ lastEvent = "load"
  /\ fault = "none"
  /\ log = <<>>
  /\ raised = FALSE
  /\ listening = FALSE

Init ==
  /\ \E cn \in MarkupClassNames, doc \in Documents : Markup(cn, doc)
  /\ localStorage \in StoreStates
  /\ beforeReload = NoPage

\* Lines 209-214: init runs once the document is ready.
RunInit ==
  /\ lastEvent = "load"
  /\ \E f \in Faults :
       /\ \E p \in {init(Page, f)} : Leaves(p)
       /\ fault' = f
  /\ lastEvent' = "init"
  /\ UNCHANGED <<htmlClass, beforeReload>>

\* The user picks another brand: the change event of brandSelect.
HandleBrandChange ==
  /\ listening
  /\ \E b \in Brands \ {brandSelect}, f \in Faults :
       /\ \E p \in {handleBrandChange([Page EXCEPT !.brand = b], f)} : Leaves(p)
       /\ fault' = f
  /\ lastEvent' = "change"
  /\ beforeReload' = NoPage
  /\ UNCHANGED htmlClass

\* The user picks another mode: the change event of modeSelect.
HandleModeChange ==
  /\ listening
  /\ \E m \in Modes \ {modeSelect}, f \in Faults :
       /\ \E p \in {handleModeChange([Page EXCEPT !.mode = m], f)} : Leaves(p)
       /\ fault' = f
  /\ lastEvent' = "change"
  /\ beforeReload' = NoPage
  /\ UNCHANGED htmlClass

\* The page is loaded again: the markup is parsed afresh, the store stays.
Reload ==
  /\ lastEvent # "load"
  /\ beforeReload' = IF lastEvent = "change" /\ fault = "none"
                     THEN [classes |-> ClassSet(className), saved |-> TRUE]
                     ELSE NoPage
  /\ className' = htmlClass
  /\ textContent' = [id \in DOMAIN textContent |-> ""]
  /\ brandSelect' = "Brand-A"
  /\ modeSelect' = "Lightmode"
  /\ lastEvent' = "load"
  /\ fault' = "none"
  /\ log' = <<>>
  /\ raised' = FALSE
  /\ listening' = FALSE
  /\ UNCHANGED <<localStorage, htmlClass>>

Next == RunInit \/ HandleBrandChange \/ HandleModeChange \/ Reload

Spec == Init /\ [][Next]_vars

\* Every set of component-token display elements, on a page that carries the
\* class label and the swatches.
InitDocuments ==
  /\ \E present \in SUBSET TokenIds :
       Markup(<<"no-js">>, present \cup {ClassesDisplayId} \cup SwatchVars)
  /\ localStorage \in StoreStates
  /\ beforeReload = NoPage

SpecDocuments == InitDocuments /\ [][Next]_vars

(***************************************************************************)
(* Properties                                                              *)
(***************************************************************************)
\* The brand-mode class of the current selection, spelled out.
Selected == brandSelect \o "-" \o modeSelect

\* applyTheme has run on this page; its arguments are the select values.
Applied == lastEvent \in {"init", "change"}

Refreshers == {"updateClassDisplay", "updateSwatchValues", "updateComponentTokenValues"}

StepsNamed(names) == {i \in 1..Len(log) : log[i].step \in names}

\* C1: after every applyTheme(B, M), whatever the markup's class attribute and
\* whatever was applied before, the root's class tokens are exactly
\* {"Headless-base", B-M}.
C1_ClassSetExact ==
  Applied => ClassSet(className) = {"Headless-base", Selected}

\* A second applyTheme, with another selection than the first, on a page whose
\* markup carried a stale brand-mode class and a class of other code.
C1_Witness ==
  /\ lastEvent = "change"
  /\ {"no-js", "Brand-B-Darkmode"} \subseteq ClassSet(htmlClass)
  /\ Selected = "Brand-A-Darkmode"

\* C2 as claimed: after applyTheme(B, M) the class attribute is the string
\* "Headless-base B-M", whatever it was before.
C2_ExactString ==
  Applied => Str(className) = "Headless-base " \o Selected

Count(list, x) == Cardinality({i \in 1..Len(list) : list[i] = x})

\* The attribute, cut at single spaces, names the base class and the class
\* `theme` at most once each and never `theme` before the base class.
InOrderOnce(cn, theme) ==
  /\ Count(Tokens(Split(cn, {Space})), "Headless-base") <= 1
  /\ Count(Tokens(Split(cn, {Space})), theme) <= 1
  /\ \A i, j \in 1..Len(Split(cn, {Space})) :
       Str(Split(cn, {Space})[i]) = theme /\ Str(Split(cn, {Space})[j]) = "Headless-base"
         => j < i

\* C2 amended: after applyTheme(B, M) the class attribute holds only the tokens
\* Headless-base and B-M, each at least once, single spaces between them; it is
\* the string "Headless-base B-M" when the attribute before the call named
\* each of the two at most once and not B-M before Headless-base.
C2_ExactStringFromOrdered ==
  [][Applied' =>
       /\ \A i \in 1..Len(className') :
            IF i % 2 = 1 THEN className'[i] \in {"Headless-base", Selected'}
            ELSE className'[i] = " "
       /\ Len(className') % 2 = 1
       /\ {"Headless-base", Selected'} \subseteq {className'[i] : i \in 1..Len(className')}
       /\ (InOrderOnce(className, Selected') =>
             Str(className') = "Headless-base " \o Selected')]_vars

\* applyTheme has rewritten an attribute that held other classes into the
\* two-token string.
C2_Witness ==
  /\ lastEvent = "init"
  /\ "no-js" \in ClassSet(htmlClass)
  /\ InOrderOnce(htmlClass, Selected)
  /\ Str(className) = "Headless-base Brand-B-Darkmode"

\* C3: when the store holds a brand and a mode and both reads succeed, init
\* leaves the root with exactly the base class and the stored brand-mode class.
C3_StoredSelectionApplied ==
  ( /\ lastEvent = "init"
    /\ fault = "none"
    /\ localStorage["ds-theme-brand"] \in Brands
    /\ localStorage["ds-theme-mode"] \in Modes )
  => ClassSet(className) =
       {"Headless-base", localStorage["ds-theme-brand"] \o "-" \o localStorage["ds-theme-mode"]}

C3_Witness ==
  /\ lastEvent = "init"
  /\ fault = "none"
  /\ localStorage["ds-theme-brand"] = "Brand-B"
  /\ localStorage["ds-theme-mode"] = "Darkmode"
  /\ ClassSet(className) = {"Headless-base", "Brand-B-Darkmode"}

\* C4: when the store is empty or a read of either key throws, load answers
\* with both fields absent and no exception, and init applies Brand-A and
\* Lightmode: the class tokens are {"Headless-base", "Brand-A-Lightmode"}.
C4_DefaultsOnEmptyOrFailedLoad ==
  /\ \A f \in {"brand", "mode"} :
       /\ loadFromStorage(localStorage, f).brand = NULL
       /\ loadFromStorage(localStorage, f).mode = NULL
       /\ ~loadFromStorage(localStorage, f).raised
  /\ ( /\ lastEvent = "init"
       /\ \/ fault # "none"
          \/ localStorage["ds-theme-brand"] = NULL /\ localStorage["ds-theme-mode"] = NULL )
     => /\ ~raised
        /\ brandSelect = "Brand-A"
        /\ modeSelect = "Lightmode"
        /\ ClassSet(className) = {"Headless-base", "Brand-A-Lightmode"}

\* The read of the mode key threw while the brand key held a readable value.
C4_Witness ==
  /\ lastEvent = "init"
  /\ fault = "mode"
  /\ localStorage["ds-theme-brand"] = "Brand-B"
  /\ ClassSet(className) = {"Headless-base", "Brand-A-Lightmode"}

\* C5: a change event whose write of either key throws lets no exception out
\* and still ends with the class tokens of its selection; the listeners stay.
C5_SaveFailureContained ==
  (lastEvent = "change" /\ fault # "none")
  => /\ ~raised
     /\ listening
     /\ ClassSet(className) = {"Headless-base", Selected}

C5_Witness ==
  /\ lastEvent = "change"
  /\ fault = "mode"
  /\ Selected = "Brand-B-Darkmode"
  /\ ClassSet(className) = {"Headless-base", "Brand-B-Darkmode"}

\* C6: after a change event whose save went through the store holds the
\* selection under the two keys, and the init of the next page load, reading
\* it, gives the root the class tokens the page had before the reload.
C6_RoundTrip ==
  /\ (lastEvent = "change" /\ fault = "none")
     => /\ localStorage["ds-theme-brand"] = brandSelect
        /\ localStorage["ds-theme-mode"] = modeSelect
  /\ (lastEvent = "init" /\ fault = "none" /\ beforeReload.saved)
     => /\ ClassSet(className) = beforeReload.classes
        /\ ClassSet(className) =
             {"Headless-base",
              localStorage["ds-theme-brand"] \o "-" \o localStorage["ds-theme-mode"]}

C6_Witness ==
  /\ lastEvent = "init"
  /\ fault = "none"
  /\ beforeReload.saved
  /\ beforeReload.classes = {"Headless-base", "Brand-B-Darkmode"}
  /\ ClassSet(className) = {"Headless-base", "Brand-B-Darkmode"}

\* C7: in a change event the class attribute is written once, first, and in
\* full; every display refresher runs after it and reads that attribute, so
\* the swatches show the values of the new selection; the store is written
\* only after the three refreshers have run.
C7_StepOrder ==
  lastEvent = "change" =>
    /\ StepsNamed({"className="}) = {1}
    /\ log[1].arg = Str(className)
    /\ {log[i].step : i \in StepsNamed(Refreshers)} = Refreshers
    /\ \A i \in StepsNamed(Refreshers) : i > 1 /\ log[i].arg = log[1].arg
    /\ \A id \in SwatchVars \cap DOMAIN textContent :
         textContent[id] = Selected \o "/" \o id
    /\ StepsNamed({"setItem"}) # {}
    /\ \A i \in StepsNamed({"setItem"}) :
         \A j \in StepsNamed(Refreshers \cup {"className="}) : j < i

C7_Witness ==
  /\ lastEvent = "change"
  /\ fault = "none"
  /\ Str(className) # Str(htmlClass)
  /\ Len(log) = 6

\* C8: whichever component-token display elements the page carries,
\* updateComponentTokenValues throws nothing, applyTheme runs to its end, and
\* every such element present shows the trimmed value of its variable under
\* the class tokens just written.
C8_ComponentTokensTolerant ==
  Applied =>
    /\ ~raised
    /\ \E i \in 1..Len(log) : log[i].step = "updateComponentTokenValues"
    /\ \A id \in TokenIds \cap DOMAIN textContent :
         textContent[id] = Selected \o "/" \o tokenMap[id]

\* Some of the table's elements are present and some are absent.
C8_Witness ==
  /\ lastEvent = "change"
  /\ "btn-radius-value" \in DOMAIN textContent
  /\ "tag-font-value" \notin DOMAIN textContent
  /\ textContent["btn-radius-value"] = "Brand-B-Lightmode/--button-border-radius"

\* C9 as claimed: a change event whose save fails leaves the store as it was.
C9_FailedSaveLeavesStore ==
  [][(lastEvent' = "change" /\ fault' # "none") => localStorage' = localStorage]_vars

\* C10: when the class label is present, after init and after every change it
\* shows the class attribute that same call wrote; when it is absent applyTheme
\* still runs to its end.
C10_ClassLabelCurrent ==
  Applied =>
    /\ ~raised
    /\ {log[i].step : i \in StepsNamed(Refreshers)} = Refreshers
    /\ ClassesDisplayId \in DOMAIN textContent =>
         /\ textContent[ClassesDisplayId] = Str(className)
         /\ textContent[ClassesDisplayId] = log[1].arg

C10_Witness ==
  /\ lastEvent = "change"
  /\ ClassesDisplayId \in DOMAIN textContent
  /\ textContent[ClassesDisplayId] = "Headless-base Brand-A-Darkmode"
  /\ Str(htmlClass) # "Headless-base Brand-A-Darkmode"

====
